---- MODULE Spec2Model ----
(***************************************************************************)
(* Hybrid retrieval engine of the domain-agnostic chatbot:                 *)
(*   src/utils/search.py        SearchIndexBuilder, HybridSearchEngine     *)
(*   src/document_processor.py  DocumentProcessor.create_batch             *)
(*                                                                         *)
(* Text is a sequence of one-character strings, so that str.lower() and    *)
(* the substring test `a in b` are computed, not assumed.  Scores are      *)
(* exact rationals <<numerator, denominator>> (denominator > 0); the       *)
(* weights 0.6 and 0.4 are 6/10 and 4/10.  A query is what the two index   *)
(* libraries answer for it: one similarity per stored vector, one BM25     *)
(* score per tokenized document, and whether the embedding service gave an *)
(* embedding for the query text.                                           *)
(***************************************************************************)
EXTENDS Integers, Sequences, FiniteSets, TLC

VARIABLES files, eng, ret, registry, disk, qp, pc

\* files: the directory of the batch the builders write; eng: the
\* HybridSearchEngine instance in use; ret: the last call and what it
\* returned; registry: batches/batch_registry.json; disk: the directories of
\* the registered batches; qp: the attributes of the QueryProcessor; pc: where
\* its load call and its query in flight stand
vars == <<files, eng, ret, registry, disk, qp, pc>>

processorVars == <<registry, disk, qp, pc>>

\* ------------------------------------------------------------------ bounds

\* largest top_k passed to hybrid_search
MaxK == 2
\* largest number of chunks of a corpus
MaxChunks == 2
\* largest length of a required_sources list
MaxSources == 2

\* ------------------------------------------------------------------- text

Lower(ch) == CASE ch = "A" -> "a" [] ch = "B" -> "b" [] OTHER -> ch

\* str.lower()
LowerStr(s) == [i \in DOMAIN s |-> Lower(s[i])]

\* the Python test `s in t` on strings
Contains(t, s) ==
    \E i \in 0..(Len(t) - Len(s)) : SubSeq(t, i + 1, i + Len(s)) = s

\* ---------------------------------------------------------------- numbers

RECURSIVE Gcd(_, _)
Gcd(a, b) == IF b = 0 THEN a ELSE Gcd(b, a % b)

Abs(n) == IF n < 0 THEN 0 - n ELSE n

\* the fraction n/d (d > 0) in lowest terms
Rat(n, d) == <<n \div Gcd(Abs(n), d), d \div Gcd(Abs(n), d)>>

RAdd(x, y) == Rat(x[1] * y[2] + y[1] * x[2], x[2] * y[2])

RMul(x, y) == Rat(x[1] * y[1], x[2] * y[2])

RLess(x, y) == x[1] * y[2] < y[1] * x[2]

REq(x, y) == x[1] * y[2] = y[1] * x[2]

RLeq(x, y) == RLess(x, y) \/ REq(x, y)

\* faiss_weight = 0.6 and bm25_weight = 0.4, in tenths
FaissWeightTenths == 6
Bm25WeightTenths == 4

faiss_weight == Rat(FaissWeightTenths, 10)
bm25_weight == Rat(Bm25WeightTenths, 10)

\* ------------------------------------------------------------- sequences

\* s[:n] for n >= 0
Take(s, n) == SubSeq(s, 1, IF n < Len(s) THEN n ELSE Len(s))

\* s[n:] for n >= 0
Drop(s, n) == SubSeq(s, n + 1, Len(s))

\* the positions 1..n in the order given by the strict total order Before
OrderBy(n, Before(_, _)) ==
    LET pos == [i \in 1..n |-> Cardinality({j \in 1..n : Before(j, i)})]
    IN  [r \in 1..n |-> CHOOSE i \in 1..n : pos[i] = r - 1]

RECURSIVE Concat(_)
Concat(ss) == IF ss = <<>> THEN <<>> ELSE Head(ss) \o Concat(Tail(ss))


\* the sort without reverse = True
SortByCombinedAsc(rs) ==
    LET Before(i, j) ==
            \/ RLess(rs[i].combined_score, rs[j].combined_score)
            \/ REq(rs[i].combined_score, rs[j].combined_score) /\ i < j
        ord == OrderBy(Len(rs), Before)
    IN  [r \in 1..Len(rs) |-> rs[ord[r]]]

\* list.sort(key = combined_score, reverse = True): stable, so equal scores
\* keep their order
SortByCombinedDesc(rs) ==
    LET Before(i, j) ==
            \/ RLess(rs[j].combined_score, rs[i].combined_score)
            \/ REq(rs[i].combined_score, rs[j].combined_score) /\ i < j
        ord == OrderBy(Len(rs), Before)
    IN  [r \in 1..Len(rs) |-> rs[ord[r]]]

\* ----------------------------------------------------------------- engine

\* an index attribute that is None
NoIndex == [present |-> FALSE, n |-> 0]

\* an index object holding n vectors (FAISS) or n tokenized documents (BM25)
IndexOf(n) == [present |-> TRUE, n |-> n]

\* HybridSearchEngine.__init__
NewEngine ==
    [faiss_index |-> NoIndex, faiss_chunks |-> <<>>, faiss_metadata |-> <<>>,
     bm25_index |-> NoIndex, bm25_chunks |-> <<>>, bm25_metadata |-> <<>>]

\* a Python index idx (negative counts from the end) raises IndexError on s
PyOutOfRange(s, idx) == idx >= Len(s) \/ idx < 0 - Len(s)

\* s[idx] in Python
PyAt(s, idx) == IF idx >= 0 THEN s[idx + 1] ELSE s[Len(s) + idx + 1]

\* faiss index.search(query, top_k): the top_k best positions (0-based) by
\* inner product, best first; the answer is padded with position -1 and the
\* lowest float when the index holds fewer than top_k vectors
FaissIndexSearch(vs, top_k) ==
    LET n == Len(vs)
        Before(i, j) == vs[i] > vs[j] \/ (vs[i] = vs[j] /\ i < j)
        ord == OrderBy(n, Before)
    IN  [r \in 1..top_k |->
            IF r <= n THEN [score |-> vs[ord[r]], idx |-> ord[r] - 1]
                      ELSE [score |-> 0 - 1000, idx |-> 0 - 1]]

\* HybridSearchEngine._faiss_search
faiss_search(e, q, top_k) ==
    IF ~q.emb THEN <<>>                   \* query_embedding.size == 0
    ELSE IF top_k <= 0 THEN <<>>          \* index.search rejects k = 0: except
    ELSE
      LET hits == FaissIndexSearch(q.vs, top_k)
          kept == SelectSeq([r \in 1..Len(hits) |-> r],
                            LAMBDA r : hits[r].idx < Len(e.faiss_chunks))
          raises ==
              \E j \in 1..Len(kept) :
                  \/ PyOutOfRange(e.faiss_chunks, hits[kept[j]].idx)
                  \/ /\ hits[kept[j]].idx < Len(e.faiss_metadata)
                     /\ PyOutOfRange(e.faiss_metadata, hits[kept[j]].idx)
      IN  IF raises THEN <<>>
          ELSE [j \in 1..Len(kept) |->
                  LET h == hits[kept[j]]
                  IN  [content |-> PyAt(e.faiss_chunks, h.idx),
                       score |-> h.score,
                       source |-> "faiss",
                       rank |-> kept[j] - 1,
                       metadata |-> IF h.idx < Len(e.faiss_metadata)
                                    THEN PyAt(e.faiss_metadata, h.idx)
                                    ELSE <<>>]]

\* np.argsort(scores)[::-1] (0-based positions).  argsort's default kind is
\* not a stable sort: where it keeps equal scores in index order the reversal
\* puts the larger index first ("reversed"), and the vectorized kernels may
\* leave them the other way round ("original")
ArgsortReversed(ls, ties) ==
    LET n == Len(ls)
        Before(i, j) ==
            \/ ls[i] > ls[j]
            \/ /\ ls[i] = ls[j]
               /\ IF ties = "reversed" THEN i > j ELSE i < j
        ord == OrderBy(n, Before)
    IN  [r \in 1..n |-> ord[r] - 1]

\* scores every position has alone leave argsort no choice
TieOrders(ls) ==
    IF \E i, j \in DOMAIN ls : i < j /\ ls[i] = ls[j]
    THEN {"reversed", "original"} ELSE {"reversed"}

\* no filter on the score
LexicalScoreAny(score) == TRUE

\* `if scores[idx] > 0`
LexicalScoreEligible(score) == score > 0

\* top_indices = np.argsort(scores)[::-1][:top_k]
TopIndices(q, top_k) == Take(ArgsortReversed(q.ls, q.ties), top_k)

\* HybridSearchEngine._bm25_search
bm25_search(e, q, top_k) ==
    LET top_indices == TopIndices(q, top_k)
        kept == SelectSeq([r \in 1..Len(top_indices) |-> r],
                          LAMBDA r : LexicalScoreEligible(q.ls[top_indices[r] + 1]))
        raises ==
            \E j \in 1..Len(kept) :
                PyOutOfRange(e.bm25_chunks, top_indices[kept[j]])
    IN  IF raises THEN <<>>
        ELSE [j \in 1..Len(kept) |->
                LET idx == top_indices[kept[j]]
                IN  [content |-> PyAt(e.bm25_chunks, idx),
                     score |-> q.ls[idx + 1],
                     source |-> "bm25",
                     rank |-> kept[j] - 1,
                     metadata |-> IF idx < Len(e.bm25_metadata)
                                  THEN PyAt(e.bm25_metadata, idx)
                                  ELSE <<>>]]

\* ----------------------------------------------------------------- fusion

MaxScore(rs) == CHOOSE m \in {rs[i].score : i \in DOMAIN rs} :
                    \A i \in DOMAIN rs : rs[i].score <= m

\* result['normalized_score'] = score / max if max > 0 else 0
Normalize(rs) ==
    LET max_score == MaxScore(rs)
    IN  [i \in DOMAIN rs |->
            [content |-> rs[i].content, score |-> rs[i].score,
             source |-> rs[i].source, rank |-> rs[i].rank,
             metadata |-> rs[i].metadata,
             normalized_score |-> IF max_score > 0
                                  THEN Rat(rs[i].score, max_score)
                                  ELSE Rat(0, 1)]]

WithCombined(r, c) ==
    [content |-> r.content, score |-> r.score, source |-> r.source,
     rank |-> r.rank, metadata |-> r.metadata,
     normalized_score |-> r.normalized_score, combined_score |-> c]

SeenContent(combined) == {combined[i].content : i \in DOMAIN combined}

\* the loop "Add FAISS results" of _combine_results, from result i on
RECURSIVE AddFaissResults(_, _, _)
AddFaissResults(combined, fr, i) ==
    IF i > Len(fr) THEN combined
    ELSE IF fr[i].content \notin SeenContent(combined)
         THEN AddFaissResults(
                  Append(combined,
                         WithCombined(fr[i], RMul(fr[i].normalized_score, faiss_weight))),
                  fr, i + 1)
         ELSE AddFaissResults(combined, fr, i + 1)

\* existing['combined_score'] += x on the first entry with this content
Boost(combined, content, x) ==
    LET first == CHOOSE i \in DOMAIN combined :
                    /\ combined[i].content = content
                    /\ \A j \in 1..(i - 1) : combined[j].content # content
    IN  [combined EXCEPT ![first] =
            WithCombined(@, RAdd(@.combined_score, x))]

\* the loop "Add BM25 results (boost if already exists)", from result i on
RECURSIVE AddBm25Results(_, _, _)
AddBm25Results(combined, br, i) ==
    IF i > Len(br) THEN combined
    ELSE IF br[i].content \in SeenContent(combined)
         THEN AddBm25Results(
                  Boost(combined, br[i].content,
                        RMul(br[i].normalized_score, bm25_weight)),
                  br, i + 1)
         ELSE AddBm25Results(
                  Append(combined,
                         WithCombined(br[i], RMul(br[i].normalized_score, bm25_weight))),
                  br, i + 1)

\* HybridSearchEngine._combine_results
combine_results(faiss_results, bm25_results, top_k) ==
    LET fr == Normalize(faiss_results)
        br == Normalize(bm25_results)
        combined == AddBm25Results(AddFaissResults(<<>>, fr, 1), br, 1)
    IN  Take(SortByCombinedDesc(combined), top_k)

\* -------------------------------------------------------- source balance

\* source.lower() in filename or source.lower() in content
Mentions(r, source) ==
    \/ Contains(LowerStr(r.metadata), LowerStr(source))
    \/ Contains(LowerStr(r.content), LowerStr(source))

\* the last required source, in list order, that a result mentions (0: none)
CategoryIndexLast(r, required_sources) ==
    IF \E i \in DOMAIN required_sources : Mentions(r, required_sources[i])
    THEN CHOOSE i \in DOMAIN required_sources :
            /\ Mentions(r, required_sources[i])
            /\ \A j \in (i + 1)..Len(required_sources) :
                   ~Mentions(r, required_sources[j])
    ELSE 0

\* the first required source, in list order, that a result mentions (0: none)
CategoryIndex(r, required_sources) ==
    LET hit == [i \in DOMAIN required_sources |->
                  Mentions(r, required_sources[i])]
    IN  IF \E i \in DOMAIN hit : hit[i]
        THEN CHOOSE i \in DOMAIN hit : hit[i] /\ \A j \in 1..(i - 1) : ~hit[j]
        ELSE 0

\* source_results[source]: the dict is keyed by the source string, so a
\* source named twice has one bucket
SourceResults(results, required_sources, source) ==
    SelectSeq(results,
              LAMBDA r : LET c == CategoryIndex(r, required_sources)
                         IN  c # 0 /\ required_sources[c] = source)

\* other_results
OtherResults(results, required_sources) ==
    SelectSeq(results, LAMBDA r : CategoryIndex(r, required_sources) = 0)


\* max_per_source = top_k: no share per source
MaxPerSourceWhole(required_sources, top_k) == IF top_k > 1 THEN top_k ELSE 1

\* max_per_source = max(1, top_k // len(required_sources))
MaxPerSource(required_sources, top_k) ==
    IF top_k \div Len(required_sources) > 1
    THEN top_k \div Len(required_sources) ELSE 1

\* the selection taking the end of each bucket
ReservedFromTail(results, required_sources, top_k) ==
    Concat([i \in DOMAIN required_sources |->
              LET bucket == SourceResults(results, required_sources,
                                          required_sources[i])
                  quota == MaxPerSource(required_sources, top_k)
              IN  IF Len(bucket) > quota
                  THEN Drop(bucket, Len(bucket) - quota) ELSE bucket])

\* the list after "Round-robin selection from each source"
Reserved(results, required_sources, top_k) ==
    Concat([i \in DOMAIN required_sources |->
              Take(SourceResults(results, required_sources, required_sources[i]),
                   MaxPerSource(required_sources, top_k))])

\* the list `remaining`, sorted
Remaining(results, required_sources, top_k) ==
    SortByCombinedDesc(
        Concat([i \in DOMAIN required_sources |->
                  Drop(SourceResults(results, required_sources, required_sources[i]),
                       MaxPerSource(required_sources, top_k))])
        \o OtherResults(results, required_sources))

\* the list `balanced` before the final slice
Balanced(results, required_sources, top_k) ==
    LET reserved == Reserved(results, required_sources, top_k)
        remaining_slots == top_k - Len(reserved)
    IN  IF remaining_slots > 0
        THEN reserved \o Take(Remaining(results, required_sources, top_k),
                              remaining_slots)
        ELSE reserved


\* _balance_by_sources without the final balanced[:top_k]
BalanceUnsliced(results, required_sources, top_k) ==
    Balanced(results, required_sources, top_k)

\* _balance_by_sources returning the best top_k, whatever their source
BalanceIgnoringSources(results, required_sources, top_k) ==
    Take(results, top_k)

\* HybridSearchEngine._balance_by_sources
balance_by_sources(results, required_sources, top_k) ==
    Take(Balanced(results, required_sources, top_k), top_k)

\* combined_results of hybrid_search before balancing or slicing
Fused(e, q, top_k) ==
    combine_results(faiss_search(e, q, top_k * 2), bm25_search(e, q, top_k * 2),
                    top_k * 2)

\* hybrid_search without the check `if not self.faiss_index or not
\* self.bm25_index`
HybridSearchUnguarded(e, q, top_k, required_sources) ==
    IF required_sources # <<>>
    THEN balance_by_sources(Fused(e, q, top_k), required_sources, top_k)
    ELSE Take(Fused(e, q, top_k), top_k)

\* HybridSearchEngine.hybrid_search; required_sources <<>> is None or []
hybrid_search(e, q, top_k, required_sources) ==
    IF ~e.faiss_index.present \/ ~e.bm25_index.present THEN <<>>
    ELSE IF required_sources # <<>>
         THEN balance_by_sources(Fused(e, q, top_k), required_sources, top_k)
         ELSE Take(Fused(e, q, top_k), top_k)

\* HybridSearchEngine.get_stats
get_stats(e) ==
    [faiss_chunks |-> Len(e.faiss_chunks),
     bm25_chunks |-> Len(e.bm25_chunks),
     indexes_loaded |-> e.faiss_index.present /\ e.bm25_index.present]

\* ------------------------------------------------------------ index files

\* A chunk as the document pipeline hands it over: its text and the filename
\* of its metadata.  The builder gets the two as parallel lists.
Chunk(content, filename) == [content |-> content, filename |-> filename]

ContentsOf(c) == [i \in DOMAIN c |-> c[i].content]

FilenamesOf(c) == [i \in DOMAIN c |-> c[i].filename]

Absent == [state |-> "absent", chunks |-> <<>>, metadata |-> <<>>]

\* a file opened for writing whose pickle.dump did not complete
Corrupt == [state |-> "corrupt", chunks |-> <<>>, metadata |-> <<>>]

Written(chunks, metadata) ==
    [state |-> "ok", chunks |-> chunks, metadata |-> metadata]

\* the directory batches/<batch_id> of one batch: faiss_index/index.faiss,
\* faiss_index/index.pkl and bm25_index.pkl
NoFiles ==
    [batch_dir |-> FALSE, faiss_dir |-> FALSE,
     index_faiss |-> Absent, index_pkl |-> Absent, bm25_pkl |-> Absent]

\* EmbeddingGenerator._initialize_client: without OPENAI_API_KEY the
\* ValueError is caught and the client stays None
initialize_client(api_key) == api_key

\* the vector the provider returns for a text
Vector(text) == <<"vector", text>>

\* EmbeddingGenerator.generate_embeddings: one vector per text, [] without a
\* client and [] when the provider call raises
generate_embeddings(client, texts, provider_error) ==
    IF ~client THEN <<>>
    ELSE IF provider_error THEN <<>>
    ELSE [i \in DOMAIN texts |-> Vector(texts[i])]

\* the embeddings build_faiss_index gets under a fault
EmbeddingsUnder(chunks, fault) ==
    generate_embeddings(initialize_client(fault # "no_credential"), chunks,
                        fault = "provider_error")

\* SearchIndexBuilder.build_faiss_index.  fault: "no_credential" (no API
\* key), "provider_error" (the embedding call raises), "dump" (pickle.dump
\* of index.pkl raises)
build_faiss_index(f, chunks, metadata, fault) ==
    IF EmbeddingsUnder(chunks, fault) = <<>>
    THEN [ok |-> FALSE, files |-> f]      \* `if not embeddings`
    ELSE IF fault = "dump"
    THEN [ok |-> FALSE,
          files |-> [f EXCEPT !.batch_dir = TRUE, !.faiss_dir = TRUE,
                              !.index_faiss = Written(chunks, <<>>),
                              !.index_pkl = Corrupt]]
    ELSE [ok |-> TRUE,
          files |-> [f EXCEPT !.batch_dir = TRUE, !.faiss_dir = TRUE,
                              !.index_faiss = Written(chunks, <<>>),
                              !.index_pkl = Written(chunks, metadata)]]

\* build_bm25_index writing its file whatever the chunk list
BuildBm25IndexOfAnything(f, chunks, metadata, fault) ==
    IF ~f.batch_dir
    THEN [ok |-> FALSE, files |-> f]
    ELSE [ok |-> TRUE, files |-> [f EXCEPT !.bm25_pkl = Written(chunks, metadata)]]

\* SearchIndexBuilder.build_bm25_index.  BM25Okapi([]) divides by the corpus
\* size; open(output_file, 'wb') needs the batch directory
build_bm25_index(f, chunks, metadata, fault) ==
    IF chunks = <<>> \/ ~f.batch_dir
    THEN [ok |-> FALSE, files |-> f]
    ELSE IF fault = "dump"
    THEN [ok |-> FALSE, files |-> [f EXCEPT !.bm25_pkl = Corrupt]]
    ELSE [ok |-> TRUE, files |-> [f EXCEPT !.bm25_pkl = Written(chunks, metadata)]]

\* DocumentProcessor.create_batch.  The call of build_faiss_index passes
\* chunks and output_dir only: Python raises TypeError for the missing
\* `metadata` before the builder runs, and create_batch's except returns
\* False.
create_batch(f, chunks, metadata) ==
    IF chunks = <<>>
    THEN [ok |-> FALSE, files |-> f]
    ELSE [ok |-> FALSE, files |-> [f EXCEPT !.batch_dir = TRUE]]

\* HybridSearchEngine._load_faiss_index
load_faiss_index(e, f) ==
    IF f.index_faiss.state = "absent" \/ f.index_pkl.state = "absent"
    THEN [ok |-> FALSE, eng |-> e]
    ELSE IF f.index_pkl.state = "corrupt"
    THEN [ok |-> FALSE,
          eng |-> [e EXCEPT !.faiss_index = IndexOf(Len(f.index_faiss.chunks))]]
    ELSE [ok |-> TRUE,
          eng |-> [e EXCEPT !.faiss_index = IndexOf(Len(f.index_faiss.chunks)),
                            !.faiss_chunks = f.index_pkl.chunks,
                            !.faiss_metadata = f.index_pkl.metadata]]

\* _load_bm25_index keeping the engine's chunk list
LoadBm25IndexKeepingChunks(e, f) ==
    IF f.bm25_pkl.state # "ok"
    THEN [ok |-> FALSE, eng |-> e]
    ELSE [ok |-> TRUE,
          eng |-> [e EXCEPT !.bm25_index = IndexOf(Len(f.bm25_pkl.chunks))]]

\* HybridSearchEngine._load_bm25_index
load_bm25_index(e, f) ==
    IF f.bm25_pkl.state # "ok"
    THEN [ok |-> FALSE, eng |-> e]
    ELSE [ok |-> TRUE,
          eng |-> [e EXCEPT !.bm25_index = IndexOf(Len(f.bm25_pkl.chunks)),
                            !.bm25_chunks = f.bm25_pkl.chunks,
                            !.bm25_metadata = f.bm25_pkl.metadata]]

\* HybridSearchEngine.load_indexes
load_indexes(e, f) ==
    LET a == load_faiss_index(e, f)
    IN  IF ~a.ok THEN a ELSE load_bm25_index(a.eng, f)

\* --------------------------------------------------------- batch registry

\* None
Null == "None"

\* BatchManager._load_registry: "Create empty registry"
EmptyRegistry == [batches |-> <<>>, default_batch |-> Null]

\* list(registry["batches"].keys()) without batch_id
WithoutBatch(batches, batch_id) == SelectSeq(batches, LAMBDA b : b # batch_id)

IsRegistered(reg, batch_id) == \E i \in DOMAIN reg.batches : reg.batches[i] = batch_id

\* BatchManager._save_registry, then what _load_registry reads back.  fault:
\* "open" (the file cannot be opened: it stays as it was), "dump" (the write
\* stops part-way: the file is no JSON and reads as the empty registry)
save_registry(old, new, fault) ==
    IF fault = "none" THEN new
    ELSE IF fault = "open" THEN old
    ELSE EmptyRegistry

\* BatchManager.register_batch
register_batch(reg, batch_id, fault) ==
    LET new == [batches |-> IF IsRegistered(reg, batch_id) THEN reg.batches
                            ELSE Append(reg.batches, batch_id),
                default_batch |-> IF reg.default_batch = Null THEN batch_id
                                  ELSE reg.default_batch]
    IN  [ok |-> fault = "none", registry |-> save_registry(reg, new, fault)]

\* BatchManager.set_default_batch; a failing save raises to the caller
set_default_batch(reg, batch_id, fault) ==
    IF ~IsRegistered(reg, batch_id)
    THEN [ok |-> FALSE, registry |-> reg]
    ELSE [ok |-> fault = "none",
          registry |-> save_registry(reg, [reg EXCEPT !.default_batch = batch_id],
                                     fault)]

\* delete_batch leaving default_batch as it is
DeleteBatchKeepingDefault(reg, dsk, batch_id, fault) ==
    IF ~IsRegistered(reg, batch_id)
    THEN [ok |-> FALSE, registry |-> reg, disk |-> dsk]
    ELSE [ok |-> fault = "none",
          registry |-> save_registry(
              reg, [reg EXCEPT !.batches = WithoutBatch(reg.batches, batch_id)],
              fault),
          disk |-> [dsk EXCEPT ![batch_id] = NoFiles]]

\* BatchManager.delete_batch
delete_batch(reg, dsk, batch_id, fault) ==
    IF ~IsRegistered(reg, batch_id)
    THEN [ok |-> FALSE, registry |-> reg, disk |-> dsk]
    ELSE LET remaining_batches == WithoutBatch(reg.batches, batch_id)
             new == [batches |-> remaining_batches,
                     default_batch |->
                         IF reg.default_batch = batch_id
                         THEN IF remaining_batches # <<>>
                              THEN remaining_batches[1] ELSE Null
                         ELSE reg.default_batch]
         IN  [ok |-> fault = "none",
              registry |-> save_registry(reg, new, fault),
              disk |-> [dsk EXCEPT ![batch_id] = NoFiles]]

\* BatchManager.get_batch_paths: None for a batch the registry does not hold
get_batch_paths(reg, batch_id) ==
    IF IsRegistered(reg, batch_id) THEN batch_id ELSE Null

\* ------------------------------------------------------------------ inputs

\* text "A"; the same text "x" under two filenames, one naming source b
ChunkA == Chunk(<<"A">>, <<"f">>)
ChunkF == Chunk(<<"x">>, <<"b">>)
ChunkX == Chunk(<<"x">>, <<"f">>)

ChunkPool == {ChunkA, ChunkF, ChunkX}

\* the non-empty corpora of at most MaxChunks chunks
Corpora == UNION {[1..n -> ChunkPool] : n \in 1..MaxChunks}

\* the chunk lists handed to the builders in the life-cycle specification
StoreCorpora == {<<>>, <<ChunkA>>, <<ChunkF, ChunkX>>}

SourceIds == {<<"a">>, <<"B">>}

\* required_sources: None or [] (<<>>), or a list that may repeat a name
SourceLists == UNION {[1..n -> SourceIds] : n \in 0..MaxSources}

\* inner products (a cosine may be negative) and BM25 scores
VScores == {0 - 1, 1, 2}
LScores == {0, 1, 2}

\* an index answers by the stored text: n scores, equal for equal chunks
Answers(n, chunks, scores) ==
    {l \in [1..n -> scores] :
        \A i, j \in 1..n :
            (i <= Len(chunks) /\ j <= Len(chunks) /\ chunks[i] = chunks[j])
            => l[i] = l[j]}

LexicalAnswers(e) == Answers(e.bm25_index.n, e.bm25_chunks, LScores)

VectorAnswers(e) == Answers(e.faiss_index.n, e.faiss_chunks, VScores)

\* every query against engine e; without an embedding the similarities are
\* never computed
Queries(e) ==
    {[emb |-> TRUE, vs |-> v, ls |-> l, ties |-> t] :
        v \in VectorAnswers(e), l \in LexicalAnswers(e),
        t \in {"reversed", "original"}}
    \cup
    {[emb |-> FALSE, vs |-> [i \in 1..e.faiss_index.n |-> 1], ls |-> l,
      ties |-> t] :
        l \in LexicalAnswers(e), t \in {"reversed", "original"}}

\* the query every chunk answers alike
UniformQuery(e, ties) ==
    [emb |-> TRUE, vs |-> [i \in 1..e.faiss_index.n |-> 1],
     ls |-> [i \in 1..e.bm25_index.n |-> 1], ties |-> ties]

\* fused candidates handed to _balance_by_sources: texts that name source a,
\* source b, both (in either case) or none, in the text or in the filename
FusedPool ==
    {Chunk(<<"A">>, <<"f">>), Chunk(<<"B", "x">>, <<"f">>),
     Chunk(<<"x">>, <<"b">>), Chunk(<<"x">>, <<"f">>),
     Chunk(<<"a", "b">>, <<"f">>)}

\* combined scores 0.4 and 1.0
FusedScores == {Rat(4, 10), Rat(10, 10)}

\* largest number of fused candidates
MaxResults == 3

\* largest target count handed to _balance_by_sources alone: two sources
\* then have a quota of two
MaxBalanceK == 4

FusedEntry(c, s) ==
    [content |-> c.content, score |-> 0, source |-> "faiss", rank |-> 0,
     metadata |-> c.filename, normalized_score |-> Rat(0, 1),
     combined_score |-> s]

\* what _combine_results can return: no text twice, best score first
FusedLists ==
    {[i \in DOMAIN l |-> FusedEntry(l[i][1], l[i][2])] :
        l \in {m \in UNION {[1..n -> FusedPool \X FusedScores] : n \in 0..MaxResults} :
                 /\ \A i, j \in DOMAIN m :
                        i < j => /\ m[i][1].content # m[j][1].content
                                 /\ RLeq(m[j][2], m[i][2])}}

\* --------------------------------------------------------------- actions

\* QueryProcessor.__init__
NewProcessor == [search_engine |-> FALSE, current_batch_id |-> Null]

\* no load call under way, no query in flight
Idle ==
    [load |-> "idle", load_batch |-> Null, query |-> Null, left |-> 0,
     started_loaded |-> FALSE, overlap |-> FALSE]

\* what the last call was and what it returned
Ret(op, ok) ==
    [op |-> op, ok |-> ok, chunks |-> <<>>, fault |-> "none",
     embeddings |-> <<>>, batch_id |-> Null, top_k |-> 0,
     required_sources |-> <<>>,
     q |-> [emb |-> FALSE, vs |-> <<>>, ls |-> <<>>, ties |-> "reversed"],
     candidates |-> <<>>, results |-> <<>>]

\* a call of a builder with the chunk list c
BuildRet(op, ok, c) == [Ret(op, ok) EXCEPT !.chunks = ContentsOf(c)]

Faults == {"none", "no_credential", "provider_error", "dump"}

BuildFaissIndex ==
    \E c \in StoreCorpora, fault \in Faults :
        LET r == build_faiss_index(files, ContentsOf(c), FilenamesOf(c), fault)
        IN  /\ files' = r.files
            /\ ret' = [BuildRet("build_faiss_index", r.ok, c) EXCEPT
                          !.fault = fault,
                          !.embeddings = EmbeddingsUnder(ContentsOf(c), fault)]
            /\ UNCHANGED <<eng, processorVars>>

BuildBm25Index ==
    \E c \in StoreCorpora, fault \in {"none", "dump"} :
        LET r == build_bm25_index(files, ContentsOf(c), FilenamesOf(c), fault)
        IN  /\ files' = r.files
            /\ ret' = BuildRet("build_bm25_index", r.ok, c)
            /\ UNCHANGED <<eng, processorVars>>

CreateBatch ==
    \E c \in StoreCorpora :
        LET r == create_batch(files, ContentsOf(c), FilenamesOf(c))
        IN  /\ files' = r.files
            /\ ret' = BuildRet("create_batch", r.ok, c)
            /\ UNCHANGED <<eng, processorVars>>

\* a caller makes a fresh engine (QueryProcessor._ensure_batch_loaded)
CreateEngine ==
    /\ eng' = NewEngine
    /\ ret' = Ret("new_engine", TRUE)
    /\ UNCHANGED <<files, processorVars>>

LoadIndexes ==
    LET r == load_indexes(eng, files)
    IN  /\ eng' = r.eng
        /\ ret' = Ret("load_indexes", r.ok)
        /\ UNCHANGED <<files, processorVars>>

SearchCall(q, k, rs) ==
    /\ ret' = [Ret("hybrid_search", TRUE) EXCEPT
                  !.top_k = k, !.required_sources = rs, !.q = q,
                  !.results = hybrid_search(eng, q, k, rs)]
    /\ UNCHANGED <<files, eng, processorVars>>

\* hybrid_search in the life-cycle specification
HybridSearchLoaded ==
    \E k \in 1..MaxK,
       t \in TieOrders([i \in 1..eng.bm25_index.n |-> 1]) :
        SearchCall(UniformQuery(eng, t), k, <<>>)

\* hybrid_search with every query, top_k and required_sources, applied once
\* to the loaded engine
HybridSearch ==
    /\ ret.op = "load_indexes"
    /\ \E q \in Queries(eng), k \in 0..MaxK, rs \in SourceLists :
        /\ q.ties \in TieOrders(q.ls)
        /\ SearchCall(q, k, rs)

\* _balance_by_sources applied once to a fused list
BalanceBySources ==
    /\ ret.op = "combine_results"
    /\ \E k \in 0..MaxBalanceK, rs \in SourceLists \ {<<>>} :
          /\ ret' = [ret EXCEPT !.op = "balance_by_sources", !.top_k = k,
                                !.required_sources = rs,
                                !.results = balance_by_sources(ret.candidates, rs, k)]
          /\ UNCHANGED <<files, eng, processorVars>>

\* ------------------------------------------------------- specifications

\* life cycle of one batch directory and one engine
Init ==
    /\ files = NoFiles
    /\ eng = NewEngine
    /\ ret = Ret("init", TRUE)
    /\ registry = EmptyRegistry
    /\ disk = <<>>
    /\ qp = NewProcessor
    /\ pc = Idle

Next ==
    \/ BuildFaissIndex
    \/ BuildBm25Index
    \/ CreateBatch
    \/ CreateEngine
    \/ LoadIndexes
    \/ HybridSearchLoaded

Spec == Init /\ [][Next]_vars

\* the files a successful build of corpus c leaves
BuiltFiles(c) ==
    build_bm25_index(
        build_faiss_index(NoFiles, ContentsOf(c), FilenamesOf(c), "none").files,
        ContentsOf(c), FilenamesOf(c), "none").files

\* hybrid_search as a function of its inputs, on an engine that loaded a
\* corpus built from c
InitSearch ==
    \E c \in Corpora :
        /\ files = BuiltFiles(c)
        /\ eng = load_indexes(NewEngine, BuiltFiles(c)).eng
        /\ ret = Ret("load_indexes", TRUE)
        /\ registry = EmptyRegistry
        /\ disk = <<>>
        /\ qp = NewProcessor
        /\ pc = Idle

NextSearch == HybridSearch

SpecSearch == InitSearch /\ [][NextSearch]_vars

\* _balance_by_sources as a function of its inputs
InitBalance ==
    \E l \in FusedLists :
        /\ files = NoFiles
        /\ eng = NewEngine
        /\ ret = [Ret("combine_results", TRUE) EXCEPT !.candidates = l]
        /\ registry = EmptyRegistry
        /\ disk = <<>>
        /\ qp = NewProcessor
        /\ pc = Idle

NextBalance == BalanceBySources

SpecBalance == InitBalance /\ [][NextBalance]_vars

\* ------------------------------------------------- the batch registry

BatchIds == {"b1", "b2", "b3"}

\* the chunks of each batch
CorpusOf(batch_id) ==
    IF batch_id = "b1" THEN <<ChunkA>>
    ELSE IF batch_id = "b2" THEN <<ChunkF, ChunkX>>
    ELSE <<ChunkX>>

\* every batch directory with its artifacts
BuiltDisk == [b \in BatchIds |-> BuiltFiles(CorpusOf(b))]

SaveFaults == {"none", "open", "dump"}

BatchRet(op, ok, batch_id) == [Ret(op, ok) EXCEPT !.batch_id = batch_id]

RegisterBatch ==
    \E b \in BatchIds, fault \in SaveFaults :
        LET r == register_batch(registry, b, fault)
        IN  /\ registry' = r.registry
            /\ ret' = BatchRet("register_batch", r.ok, b)
            /\ UNCHANGED <<files, eng, disk, qp, pc>>

SetDefaultBatch ==
    \E b \in BatchIds, fault \in SaveFaults :
        LET r == set_default_batch(registry, b, fault)
        IN  /\ registry' = r.registry
            /\ ret' = BatchRet("set_default_batch", r.ok, b)
            /\ UNCHANGED <<files, eng, disk, qp, pc>>

DeleteBatch ==
    \E b \in BatchIds, fault \in SaveFaults :
        LET r == delete_batch(registry, disk, b, fault)
        IN  /\ registry' = r.registry
            /\ disk' = r.disk
            /\ ret' = BatchRet("delete_batch", r.ok, b)
            /\ UNCHANGED <<files, eng, qp, pc>>

\* one registry file, from the empty registry on
InitRegistry ==
    /\ files = NoFiles
    /\ eng = NewEngine
    /\ ret = Ret("init", TRUE)
    /\ registry = EmptyRegistry
    /\ disk = BuiltDisk
    /\ qp = NewProcessor
    /\ pc = Idle

NextRegistry ==
    \/ RegisterBatch
    \/ SetDefaultBatch
    \/ DeleteBatch

SpecRegistry == InitRegistry /\ [][NextRegistry]_vars

\* ------------------------------------------------- the query processor

\* most sub-queries of one query
MaxSubQueries == 2

\* top_k of the searches of _balanced_search
SubQueryTopK == 5

\* the batches queries ask for
QueryBatches == {"b1", "b2"}

\* a batch directory without bm25_index.pkl
NoLexicalFiles(c) ==
    build_faiss_index(NoFiles, ContentsOf(c), FilenamesOf(c), "none").files

\* a batch directory whose index.pkl was not written out
HalfWrittenFiles(c) ==
    build_bm25_index(
        build_faiss_index(NoFiles, ContentsOf(c), FilenamesOf(c), "dump").files,
        ContentsOf(c), FilenamesOf(c), "none").files

\* what the directory of a batch may hold
DirectoriesOf(batch_id) ==
    {BuiltFiles(CorpusOf(batch_id)), NoLexicalFiles(CorpusOf(batch_id)),
     HalfWrittenFiles(CorpusOf(batch_id)), NoFiles}

\* the engine of the processor holds both indexes of the batch
EngineHolds(batch_id) ==
    /\ qp.search_engine
    /\ load_indexes(NewEngine, disk[batch_id]).ok
    /\ eng = load_indexes(NewEngine, disk[batch_id]).eng

\* QueryProcessor._ensure_batch_loaded up to `self.search_engine =
\* HybridSearchEngine()`: the call returns at once for the current batch and
\* for a batch without paths
EnsureBatchLoaded ==
    /\ pc.load = "idle"
    /\ \E b \in QueryBatches :
          IF qp.current_batch_id = b /\ qp.search_engine
          THEN /\ ret' = BatchRet("ensure_batch_loaded", TRUE, b)
               /\ UNCHANGED <<files, eng, registry, disk, qp, pc>>
          ELSE IF get_batch_paths(registry, b) = Null
          THEN /\ ret' = BatchRet("ensure_batch_loaded", FALSE, b)
               /\ UNCHANGED <<files, eng, registry, disk, qp, pc>>
          ELSE /\ qp' = [qp EXCEPT !.search_engine = TRUE]
               /\ eng' = NewEngine
               /\ pc' = [pc EXCEPT
                            !.load = "faiss", !.load_batch = b,
                            !.overlap = @ \/ (pc.query # Null /\ pc.query # b)]
               /\ ret' = BatchRet("new_engine", TRUE, b)
               /\ UNCHANGED <<files, registry, disk>>

\* load_indexes of the call under way: _load_faiss_index
EnsureLoadFaiss ==
    /\ pc.load = "faiss"
    /\ LET r == load_faiss_index(eng, disk[pc.load_batch])
       IN  /\ eng' = r.eng
           /\ IF r.ok
              THEN /\ pc' = [pc EXCEPT !.load = "bm25"]
                   /\ ret' = BatchRet("load_faiss_index", TRUE, pc.load_batch)
              ELSE /\ pc' = [pc EXCEPT !.load = "idle", !.load_batch = Null]
                   /\ ret' = BatchRet("ensure_batch_loaded", FALSE, pc.load_batch)
    /\ UNCHANGED <<files, registry, disk, qp>>

\* load_indexes of the call under way: _load_bm25_index, and the return of
\* _ensure_batch_loaded
EnsureLoadBm25 ==
    /\ pc.load = "bm25"
    /\ LET r == load_bm25_index(eng, disk[pc.load_batch])
       IN  /\ eng' = r.eng
           /\ qp' = IF r.ok THEN [qp EXCEPT !.current_batch_id = pc.load_batch]
                            ELSE qp
           /\ ret' = BatchRet("ensure_batch_loaded", r.ok, pc.load_batch)
    /\ pc' = [pc EXCEPT !.load = "idle", !.load_batch = Null]
    /\ UNCHANGED <<files, registry, disk>>

\* process_query after its _ensure_batch_loaded returned True: the query is
\* decomposed and _balanced_search begins
StartQuery ==
    /\ ret.op = "ensure_batch_loaded" /\ ret.ok
    /\ pc.load = "idle" /\ pc.query = Null
    /\ \E n \in 1..MaxSubQueries :
          pc' = [pc EXCEPT !.query = ret.batch_id, !.left = n,
                           !.started_loaded = EngineHolds(ret.batch_id),
                           !.overlap = FALSE]
    /\ ret' = BatchRet("process_query", TRUE, ret.batch_id)
    /\ UNCHANGED <<files, eng, registry, disk, qp>>

\* one pass of the loop of _balanced_search:
\* self.search_engine.hybrid_search(query, top_k=5)
SubQuerySearch ==
    /\ pc.query # Null /\ pc.left > 0
    /\ \E t \in TieOrders([i \in 1..eng.bm25_index.n |-> 1]) :
          ret' = [BatchRet("sub_query_search", TRUE, pc.query) EXCEPT
                     !.top_k = SubQueryTopK, !.q = UniformQuery(eng, t),
                     !.results = hybrid_search(eng, UniformQuery(eng, t),
                                               SubQueryTopK, <<>>)]
    /\ pc' = [pc EXCEPT !.left = @ - 1]
    /\ UNCHANGED <<files, eng, registry, disk, qp>>

\* _balanced_search returns
FinishQuery ==
    /\ pc.query # Null /\ pc.left = 0
    /\ pc' = [pc EXCEPT !.query = Null, !.started_loaded = FALSE,
                        !.overlap = FALSE]
    /\ ret' = BatchRet("balanced_search", TRUE, pc.query)
    /\ UNCHANGED <<files, eng, registry, disk, qp>>

\* one QueryProcessor over a registry of one or two batches whose
\* directories are complete or not
InitProcessor ==
    /\ files = NoFiles
    /\ eng = NewEngine
    /\ ret = Ret("init", TRUE)
    /\ registry \in {[batches |-> <<"b1">>, default_batch |-> "b1"],
                     [batches |-> <<"b1", "b2">>, default_batch |-> "b1"]}
    /\ disk \in {d \in [BatchIds -> UNION {DirectoriesOf(b) : b \in BatchIds}] :
                    /\ \A b \in QueryBatches : d[b] \in DirectoriesOf(b)
                    /\ \A b \in BatchIds \ QueryBatches : d[b] = NoFiles}
    /\ qp = NewProcessor
    /\ pc = Idle

NextProcessor ==
    \/ EnsureBatchLoaded
    \/ EnsureLoadFaiss
    \/ EnsureLoadBm25
    \/ StartQuery
    \/ SubQuerySearch
    \/ FinishQuery

SpecProcessor == InitProcessor /\ [][NextProcessor]_vars

\* ----------------------------------------------------------------- claims

Searched == ret.op = "hybrid_search"

Balancing == ret.op = "balance_by_sources"

SortedByCombined(rs) ==
    \A i, j \in DOMAIN rs :
        i < j => RLeq(rs[j].combined_score, rs[i].combined_score)

\* C1: every list hybrid_search returns, with or without required_sources,
\* is sorted non-increasing by combined_score
C1_ResultsSortedByCombinedScore ==
    Searched => SortedByCombined(ret.results)

VectorArtifactCount == Len(files.index_pkl.chunks)

LexicalArtifactCount == Len(files.bm25_pkl.chunks)

\* C2: a load from a vector artifact and a lexical artifact that report
\* different chunk counts returns False and leaves the engine not loaded
C2_CountMismatchRefused ==
    (/\ ret.op = "load_indexes"
     /\ files.index_pkl.state = "ok"
     /\ files.bm25_pkl.state = "ok"
     /\ VectorArtifactCount # LexicalArtifactCount)
    => (~ret.ok /\ ~get_stats(eng).indexes_loaded)

NoDuplicateContent(rs) ==
    \A i, j \in DOMAIN rs : i # j => rs[i].content # rs[j].content

\* C3: no list returned by hybrid_search holds two entries with the same
\* content
C3_NoDuplicateContent ==
    Searched => NoDuplicateContent(ret.results)

BuildFailed ==
    /\ ret.op \in {"build_faiss_index", "build_bm25_index", "create_batch"}
    /\ ~ret.ok

\* load_indexes on the batch's artifact paths succeeds
Loadable == load_indexes(NewEngine, files).ok

\* C4: after a build that failed, first build or rebuild, the batch is not
\* loadable
C4_FailedBuildNotLoadable ==
    BuildFailed => ~Loadable

\* C5: a load_indexes call that returns False leaves the engine's index
\* state as it was before the call
C5_FailedLoadLeavesEngineUnchanged ==
    [][(ret'.op = "load_indexes" /\ ~ret'.ok) => eng' = eng]_vars

\* C6: hybrid_search returns at most top_k results for every query, top_k
\* >= 0 and required_sources list; with top_k = 0 it returns the empty list
C6_CountBound ==
    Searched => Len(ret.results) <= ret.top_k

\* more required sources than top_k, and the reserved results alone exceed
\* top_k
C6_Witness ==
    /\ Searched
    /\ ret.top_k >= 1
    /\ Len(ret.required_sources) > ret.top_k
    /\ Len(Balanced(Fused(eng, ret.q, ret.top_k), ret.required_sources,
                    ret.top_k)) > ret.top_k
    /\ Len(ret.results) = ret.top_k

\* some entry of rs is categorized as the i-th required source
HasCategory(rs, required_sources, i) ==
    \E n \in DOMAIN rs : CategoryIndex(rs[n], required_sources) = i

TwoSourcesWithCandidates ==
    /\ Balancing
    /\ Len(ret.required_sources) = 2
    /\ ret.required_sources[1] # ret.required_sources[2]
    /\ ret.top_k >= 2
    /\ HasCategory(ret.candidates, ret.required_sources, 1)
    /\ HasCategory(ret.candidates, ret.required_sources, 2)

\* C7: with two required sources that each have a categorized candidate and
\* top_k >= 2, _balance_by_sources returns a result of each
C7_BothSourcesRepresented ==
    TwoSourcesWithCandidates
    => /\ HasCategory(ret.results, ret.required_sources, 1)
       /\ HasCategory(ret.results, ret.required_sources, 2)

\* the best top_k candidates by score leave one of the two sources out
C7_Witness ==
    /\ TwoSourcesWithCandidates
    /\ \E i \in 1..2 :
          ~HasCategory(Take(ret.candidates, ret.top_k), ret.required_sources, i)
    /\ HasCategory(ret.results, ret.required_sources, 1)
    /\ HasCategory(ret.results, ret.required_sources, 2)

\* C8 as stated: for every non-empty required_sources and top_k >= 1, every
\* required source with a categorized candidate has a result in the output
C8_EverySourceRepresented ==
    (Balancing /\ ret.top_k >= 1)
    => \A i \in DOMAIN ret.required_sources :
          HasCategory(ret.candidates, ret.required_sources, i)
          => HasCategory(ret.results, ret.required_sources, i)

\* the entries of required_sources whose bucket holds a candidate
EntriesWithCandidates ==
    {i \in DOMAIN ret.required_sources :
        SourceResults(ret.candidates, ret.required_sources,
                      ret.required_sources[i]) # <<>>}

\* C8 amended: the same, provided at most top_k entries of required_sources
\* have categorized candidates
C8_SourcesRepresentedWithinTopK ==
    (Balancing /\ ret.top_k >= 1 /\ Cardinality(EntriesWithCandidates) <= ret.top_k)
    => \A i \in DOMAIN ret.required_sources :
          HasCategory(ret.candidates, ret.required_sources, i)
          => HasCategory(ret.results, ret.required_sources, i)

\* two sources with candidates, one of them absent from the best top_k
C8_Witness ==
    /\ Balancing
    /\ ret.top_k >= 1
    /\ Cardinality(EntriesWithCandidates) <= ret.top_k
    /\ \E i, j \in DOMAIN ret.required_sources :
          /\ i # j
          /\ HasCategory(ret.candidates, ret.required_sources, i)
          /\ HasCategory(ret.candidates, ret.required_sources, j)
          /\ ~HasCategory(Take(ret.candidates, ret.top_k), ret.required_sources, j)
          /\ HasCategory(ret.results, ret.required_sources, j)

\* the chunks (1-based positions) with a positive lexical score
LexicalHits == {i \in DOMAIN ret.q.ls : ret.q.ls[i] > 0}

\* the results are exactly chunk i of the loaded corpus
SoleResultIsChunk(i) ==
    /\ Len(ret.results) = 1
    /\ ret.results[1].content = eng.bm25_chunks[i]
    /\ ret.results[1].metadata = eng.bm25_metadata[i]

TopOneSearch ==
    /\ Searched
    /\ ret.top_k = 1
    /\ ret.required_sources = <<>>

\* C9 as stated: when exactly one chunk has a positive lexical score,
\* hybrid_search(query, top_k = 1) returns that chunk alone, whatever the
\* vector similarities
C9_LexicalHitIsSoleResult ==
    (TopOneSearch /\ Cardinality(LexicalHits) = 1)
    => \A i \in LexicalHits : SoleResultIsChunk(i)

\* the vector results of the search recorded in ret
VectorResults == faiss_search(eng, ret.q, ret.top_k * 2)

\* chunk i is the top-ranked vector result, or there is no vector result
TopVectorHitOrNone(i) ==
    \/ VectorResults = <<>>
    \/ /\ VectorResults[1].content = eng.faiss_chunks[i]
       /\ VectorResults[1].metadata = eng.faiss_metadata[i]

\* C9 amended: when exactly one chunk has a positive lexical score and that
\* chunk is also the top-ranked vector result (or the vector search returns
\* nothing), hybrid_search(query, top_k = 1) returns that chunk alone
C9_LexicalAndVectorTopIsSoleResult ==
    (TopOneSearch /\ Cardinality(LexicalHits) = 1)
    => \A i \in LexicalHits : TopVectorHitOrNone(i) => SoleResultIsChunk(i)

\* two vector results, the lexical hit first among them
C9_Witness ==
    /\ TopOneSearch
    /\ Cardinality(LexicalHits) = 1
    /\ Len(VectorResults) >= 2
    /\ VectorResults[1].content # VectorResults[2].content
    /\ \A i \in LexicalHits :
          /\ VectorResults[1].content = eng.faiss_chunks[i]
          /\ SoleResultIsChunk(i)

One == Rat(1, 1)

\* content has normalized score 1.0 in the result set rs
MaxIn(rs, content) ==
    \E i \in DOMAIN rs : rs[i].content = content /\ rs[i].normalized_score = One

\* C10: a chunk with normalized score 1.0 in the vector result set and in the
\* lexical result set has combined_score exactly 1.0
C10_MaxInBothScoresOne ==
    Searched
    => \A n \in DOMAIN ret.results :
          (/\ MaxIn(Normalize(VectorResults), ret.results[n].content)
           /\ MaxIn(Normalize(bm25_search(eng, ret.q, ret.top_k * 2)),
                    ret.results[n].content))
          => ret.results[n].combined_score = One


\* ------------------------------------------------- claims: build and load

Loaded == ret.op = "load_indexes" /\ ret.ok

\* the three artifacts hold one chunk list, as after building both indexes
\* on it
ArtifactsOf(C) ==
    /\ files.index_faiss.state = "ok" /\ files.index_faiss.chunks = C
    /\ files.index_pkl.state = "ok" /\ files.index_pkl.chunks = C
    /\ files.bm25_pkl.state = "ok" /\ files.bm25_pkl.chunks = C

\* C11: after both builders succeeded on a chunk list C and load_indexes
\* succeeded on the artifacts, get_stats reports len(C) chunks for both
\* indexes and indexes_loaded True.
C11_RoundTripChunkCount ==
    \A c \in StoreCorpora :
        (Loaded /\ ArtifactsOf(ContentsOf(c)))
        => get_stats(eng) = [faiss_chunks |-> Len(c), bm25_chunks |-> Len(c),
                             indexes_loaded |-> TRUE]

C11_Witness ==
    /\ Loaded
    /\ ArtifactsOf(ContentsOf(<<ChunkF, ChunkX>>))
    /\ get_stats(eng).faiss_chunks = 2
    /\ get_stats(eng).bm25_chunks = 2

BuildOps == {"build_faiss_index", "build_bm25_index", "create_batch"}

\* C12: a build from the empty chunk sequence (build_faiss_index,
\* build_bm25_index or create_batch) returns False and writes no file and no
\* directory.
C12_EmptyBuildFailsAndWritesNothing ==
    [][(ret'.op \in BuildOps /\ ret'.chunks = <<>>)
        => (~ret'.ok /\ files' = files)]_vars

\* an empty build into a batch directory that exists and holds artifacts
C12_Witness ==
    /\ ret.op = "build_bm25_index" /\ ret.chunks = <<>> /\ ~ret.ok
    /\ files.batch_dir /\ files.index_pkl.state = "ok"


\* -------------------------------------------------- claims: fall-through

Min(a, b) == IF a < b THEN a ELSE b

\* a required source has no categorized candidate, or fewer than its quota
SomeSourceShort ==
    \E i \in DOMAIN ret.required_sources :
        Len(SourceResults(ret.candidates, ret.required_sources,
                          ret.required_sources[i]))
            < MaxPerSource(ret.required_sources, ret.top_k)

\* C13: when a required source has no categorized result, or fewer than its
\* quota, the unused slots fall through to the remainder, and
\* _balance_by_sources returns exactly min(k, number of input results)
\* results.
C13_ShortSourceFallsThrough ==
    (Balancing /\ SomeSourceShort)
    => Len(ret.results) = Min(ret.top_k, Len(ret.candidates))


\* ------------------------------------------- claims: the two sub-searches

LexicalResults == bm25_search(eng, ret.q, ret.top_k * 2)

\* result r is chunk i of the lexical index
IsLexicalChunk(r, i) ==
    r.content = eng.bm25_chunks[i] /\ r.metadata = eng.bm25_metadata[i]

\* C14: every entry of the list _bm25_search returns has a strictly positive
\* lexical score, and a chunk that shares no token with the query (score 0)
\* is not in the list.
C14_LexicalResultsPositive ==
    Searched
    => LET lexical == LexicalResults
       IN  /\ \A n \in DOMAIN lexical : lexical[n].score > 0
           /\ \A i \in DOMAIN ret.q.ls :
                  ret.q.ls[i] = 0
                  => \A n \in DOMAIN lexical : ~IsLexicalChunk(lexical[n], i)

\* one chunk matches, the other shares no token and is within the top 2k
C14_Witness ==
    /\ Searched
    /\ ret.top_k = 1
    /\ Len(ret.q.ls) = 2
    /\ ret.q.ls[1] = 0 /\ ret.q.ls[2] > 0
    /\ Len(LexicalResults) = 1

\* C15: when the query embedding cannot be produced the vector search
\* returns the empty list, and the result of hybrid_search consists of
\* lexical results only, each with combined_score = 0.4 x its normalized
\* lexical score.
C15_NoEmbeddingLexicalOnly ==
    (Searched /\ ~ret.q.emb)
    => /\ VectorResults = <<>>
       /\ \A n \in DOMAIN ret.results :
              /\ ret.results[n].source = "bm25"
              /\ ret.results[n].combined_score
                     = RMul(ret.results[n].normalized_score, bm25_weight)

IndexesLoaded(e) == get_stats(e).indexes_loaded

\* C16: hybrid_search on an engine whose indexes are not both loaded returns
\* the empty list and leaves the engine as it was.
C16_UnloadedSearchReturnsEmpty ==
    [][(ret'.op = "hybrid_search" /\ ~IndexesLoaded(eng))
        => (ret'.results = <<>> /\ eng' = eng)]_vars

\* a search on an engine that holds the vector index and its chunks but no
\* lexical index
C16_Witness ==
    /\ Searched
    /\ eng.faiss_index.present /\ eng.faiss_chunks # <<>>
    /\ ~eng.bm25_index.present
    /\ ret.results = <<>>


\* ---------------------------------------------------------- claims: fusion

\* the two result sets as _combine_results normalizes them, and its list
NormalizedVector == Normalize(VectorResults)

NormalizedLexical == Normalize(LexicalResults)

FusedResults == Fused(eng, ret.q, ret.top_k)

Zero == Rat(0, 1)

InSet(rs, content) == \E i \in DOMAIN rs : rs[i].content = content

\* the normalized score of the first result of rs with this content
NormalizedOf(rs, content) ==
    rs[CHOOSE i \in DOMAIN rs :
          /\ rs[i].content = content
          /\ \A j \in 1..(i - 1) : rs[j].content # content].normalized_score

\* normalized score x weight of a chunk in rs, nothing for a chunk not in rs
Weighted(rs, content, weight) ==
    IF InSet(rs, content) THEN RMul(NormalizedOf(rs, content), weight)
    ELSE Zero

\* C17: a chunk in both result sets gets combined_score = normalized vector
\* score x 0.6 + normalized lexical score x 0.4, and a chunk in one set only
\* gets its normalized score x the weight of that set.
C17_WeightedMerge ==
    Searched
    => \A n \in DOMAIN FusedResults :
          FusedResults[n].combined_score
            = RAdd(Weighted(NormalizedVector, FusedResults[n].content, faiss_weight),
                   Weighted(NormalizedLexical, FusedResults[n].content, bm25_weight))

\* the sum of normalized score x weight over the results of rs, from result
\* i on, that have this content
RECURSIVE Contributions(_, _, _, _)
Contributions(rs, content, weight, i) ==
    IF i > Len(rs) THEN Zero
    ELSE RAdd(IF rs[i].content = content
              THEN RMul(rs[i].normalized_score, weight) ELSE Zero,
              Contributions(rs, content, weight, i + 1))

\* C18: results with identical content, from the vector set, the lexical set
\* or both, merge into one fused entry whose combined_score is the sum of
\* the weighted contributions of all of them.
C18_DuplicatesSumContributions ==
    Searched
    => \A n \in DOMAIN FusedResults :
          /\ \A m \in DOMAIN FusedResults :
                 FusedResults[m].content = FusedResults[n].content => m = n
          /\ FusedResults[n].combined_score
                = RAdd(Contributions(NormalizedVector, FusedResults[n].content,
                                     faiss_weight, 1),
                       Contributions(NormalizedLexical, FusedResults[n].content,
                                     bm25_weight, 1))

\* every normalized score of rs is raw / max (0 when max is 0), within [0, 1]
NormalizedInUnit(rs) ==
    \A i \in DOMAIN rs :
        LET m == MaxScore(rs)
            ns == Normalize(rs)[i].normalized_score
        IN  /\ RLeq(Zero, ns) /\ RLeq(ns, One)
            /\ IF m = 0 THEN ns = Zero
                         ELSE ns[1] * m = rs[i].score * ns[2]

\* C19: after normalization every normalized_score is the raw score divided
\* by the maximum raw score of its result set and lies in [0, 1] (all 0 when
\* the maximum is 0), negative similarities included.
C19_NormalizedScoreInUnit ==
    Searched => NormalizedInUnit(VectorResults) /\ NormalizedInUnit(LexicalResults)

\* C20: in the lexical result list, of two chunks with equal score the one
\* with the smaller chunk index comes first.
C20_LexicalTiesInChunkOrder ==
    Searched
    => LET top == TopIndices(ret.q, ret.top_k * 2)
       IN  \A r, t \in DOMAIN top :
               (/\ r < t
                /\ ret.q.ls[top[r] + 1] = ret.q.ls[top[t] + 1]
                /\ LexicalScoreEligible(ret.q.ls[top[r] + 1]))
               => top[r] < top[t]


\* ------------------------------------------------ claims: source balance

InSeq(r, rs) == \E i \in DOMAIN rs : rs[i] = r

CountIn(rs, bucket) == Len(SelectSeq(rs, LAMBDA r : InSeq(r, bucket)))

\* max(1, floor(k / number of required sources))
Quota ==
    IF ret.top_k \div Len(ret.required_sources) > 1
    THEN ret.top_k \div Len(ret.required_sources) ELSE 1

BucketOf(source) ==
    SourceResults(ret.candidates, ret.required_sources, source)

\* the bucket of every entry of the list of required sources
Buckets == [i \in DOMAIN ret.required_sources |-> BucketOf(ret.required_sources[i])]

ReservedNow == Reserved(ret.candidates, ret.required_sources, ret.top_k)

\* C21: every entry of the list of required sources gets
\* max(1, floor(k / number of required sources)) slots, filled with the
\* results of its source in the order of their combined_score: no result of
\* the source left unreserved has a higher combined_score than a reserved
\* one, and the reserved results head the returned list.
C21_QuotaFilledWithBest ==
    Balancing
    => LET reserved == ReservedNow
           quota == Quota
           buckets == Buckets
       IN  /\ \A i \in DOMAIN ret.required_sources :
                  LET source == ret.required_sources[i]
                      bucket == buckets[i]
                      entries == Cardinality({j \in DOMAIN ret.required_sources :
                                                ret.required_sources[j] = source})
                      kept == {a \in DOMAIN bucket : InSeq(bucket[a], reserved)}
                  IN  /\ CountIn(reserved, bucket)
                            = entries * Min(quota, Len(bucket))
                      /\ \A a \in kept, b \in DOMAIN bucket \ kept :
                             RLeq(bucket[b].combined_score,
                                  bucket[a].combined_score)
           /\ Take(ret.results, Min(ret.top_k, Len(reserved)))
                 = Take(reserved, ret.top_k)

\* a source with a quota of two and a third, lower-scored result left over
C21_Witness ==
    /\ Balancing
    /\ Quota = 2
    /\ \E i \in DOMAIN ret.required_sources :
           LET bucket == BucketOf(ret.required_sources[i])
           IN  /\ Len(bucket) = 3
               /\ ~REq(bucket[3].combined_score, bucket[1].combined_score)
               /\ ~InSeq(bucket[3], ReservedNow)

\* identifier occurs in text, whatever the case of either
OccursIn(identifier, text) ==
    \E off \in 0..(Len(text) - Len(identifier)) :
        \A j \in DOMAIN identifier :
            Lower(text[off + j]) = Lower(identifier[j])

Named(r, source) == OccursIn(source, r.metadata) \/ OccursIn(source, r.content)

\* the buckets (required sources by name, "" for unclassified) that hold r
BucketsHolding(r, buckets, others) ==
    {ret.required_sources[i] : i \in {j \in DOMAIN buckets : InSeq(r, buckets[j])}}
    \cup (IF InSeq(r, others) THEN {""} ELSE {})

\* C22: every input result is in exactly one bucket: that of the first
\* required source, in the order supplied, whose identifier occurs
\* case-insensitively in the filename or the content of the result, and the
\* unclassified bucket when none occurs.
C22_OneBucketFirstMatch ==
    Balancing
    => LET buckets == Buckets
           others == OtherResults(ret.candidates, ret.required_sources)
       IN  \A p \in DOMAIN ret.candidates :
              LET r == ret.candidates[p]
                  hits == {i \in DOMAIN ret.required_sources :
                              Named(r, ret.required_sources[i])}
                  holding == BucketsHolding(r, buckets, others)
              IN  IF hits = {}
                  THEN holding = {""}
                  ELSE LET first == CHOOSE i \in hits : \A j \in hits : i <= j
                       IN  /\ holding = {ret.required_sources[first]}
                           /\ CountIn(buckets[first], <<r>>) = 1

\* one result names both sources, the second one listed in another case,
\* and another result names none
C22_Witness ==
    /\ Balancing
    /\ ret.required_sources = <<<<"B">>, <<"a">>>>
    /\ \E p, n \in DOMAIN ret.candidates :
           /\ ret.candidates[p].content = <<"a", "b">>
           /\ InSeq(ret.candidates[p], BucketOf(<<"B">>))
           /\ InSeq(ret.candidates[n],
                    OtherResults(ret.candidates, ret.required_sources))

\* C28: every entry of the list _balance_by_sources returns is an entry of
\* its input, and no input entry is returned more than once, also when the
\* list of required sources names an identifier more than once.
C28_ResultsAreInputsOnce ==
    Balancing
    => /\ \A n \in DOMAIN ret.results : InSeq(ret.results[n], ret.candidates)
       /\ \A n, m \in DOMAIN ret.results :
              ret.results[n] = ret.results[m] => n = m


\* ------------------------------------------------- claims: score and hits

\* C27: every result hybrid_search returns has combined_score in [0, 1], for
\* any raw scores (negative similarities included) and any corpus (repeated
\* text included).
C27_CombinedScoreInUnit ==
    Searched
    => \A n \in DOMAIN ret.results :
          /\ RLeq(Zero, ret.results[n].combined_score)
          /\ RLeq(ret.results[n].combined_score, One)

\* C29: _faiss_search produces entries for the positions the index reported
\* as hits only, at most one per stored vector: none for the padding of an
\* answer to a top_k larger than the index.
C29_NoResultForPadding ==
    Searched
    => /\ Len(VectorResults) <= Min(ret.top_k * 2, eng.faiss_index.n)
       /\ \A n \in DOMAIN VectorResults :
              \E i \in DOMAIN ret.q.vs : VectorResults[n].score = ret.q.vs[i]

\* C23: create_batch on documents that yield at least one chunk, with
\* embeddings available, returns True and leaves a loadable batch.
C23_CreateBatchSucceeds ==
    (ret.op = "create_batch" /\ ret.chunks # <<>>) => (ret.ok /\ Loadable)


\* ------------------------------------------------------ claims: embedding

\* C25: without an API credential the embedding generation reports an
\* outcome its caller can tell apart from the empty list it returns on a
\* provider error.
C25_NoCredentialDistinguished ==
    (ret.op = "build_faiss_index" /\ ret.fault = "no_credential")
    => /\ ret.embeddings # <<>>
       /\ ret.embeddings # generate_embeddings(TRUE, ret.chunks, TRUE)


\* ------------------------------------------------------- claims: registry

\* C30: after any sequence of register_batch, set_default_batch and
\* delete_batch calls, default_batch is null or the id of a registered
\* batch, and it is not null when a batch is registered.
C30_DefaultBatchRegistered ==
    /\ registry.default_batch = Null
       \/ IsRegistered(registry, registry.default_batch)
    /\ registry.batches # <<>> => registry.default_batch # Null

\* the last registered batch, the default one, was deleted
C30_Witness ==
    /\ ret.op = "delete_batch" /\ ret.ok
    /\ registry.batches = <<>>
    /\ registry.default_batch = Null
    /\ disk[ret.batch_id] = NoFiles


\* ------------------------------------------------------ claims: processor

\* C26: whenever _ensure_batch_loaded(b) returns True the search engine of
\* the processor holds both indexes of batch b, also for a batch loaded
\* before a failed load of another batch.
C26_EnsuredBatchIsLoaded ==
    (ret.op = "ensure_batch_loaded" /\ ret.ok) => EngineHolds(ret.batch_id)

\* C24: when a load of another batch runs while a query is in flight, every
\* search of the query is answered by an engine holding the batch the query
\* started with.
C24_InFlightQueryKeepsItsBatch ==
    (ret.op = "sub_query_search" /\ pc.started_loaded /\ pc.overlap)
    => EngineHolds(ret.batch_id)

====
